---- MODULE Spec2Model ----
(***************************************************************************)
(* Model of pre_render/posts_generator.py: the Article extraction and      *)
(* normalisation pipeline (class Article) and the search / split / publish *)
(* handlers of the Tkinter form (class ArticlesFinder).                    *)
(*                                                                         *)
(* A Python str is a sequence of strings: text the code inspects character *)
(* by character has one character per element, fixed text the code only    *)
(* copies may be a single element.  The character U+00E9 (e with acute     *)
(* accent) is written "e_acute".                                           *)
(*                                                                         *)
(* Left out: the four entries of the form and the search URL composed from *)
(* them, the pandas frame toFindAuthors builds and drops, and failures of  *)
(* the network and of the file system.                                     *)
(***************************************************************************)
EXTENDS Integers, Sequences, FiniteSets, TLC

VARIABLES
    pc,                 \* position of the running callback ("idle": mainloop)
    resultframe,        \* children of self.resultframe, in creation order
    n_widget,           \* self.n_widget
    fetched_url,        \* self.fetched_url (the status display)
    qk, we,             \* self.qk, self.we
    soup,               \* self.soup: the records of the last fetch response
    published_warning,  \* self.published_warning
    button_dict,        \* self.button_dict
    article_dict,       \* self.article_dict
    i,                  \* loop index of toSplit
    fs,                 \* ./publications/posts: directories and index files
    trace,              \* what the last callback did (calls it made)
    arg, ret            \* argument and result of a function under test

vars == <<pc, resultframe, n_widget, fetched_url, qk, we, soup,
          published_warning, button_dict, article_dict, i, fs, trace, arg, ret>>

(***************************************************************************)
(* Bounds of the model.                                                    *)
(***************************************************************************)
\* Longest fetch response (number of PubmedArticle records).
MaxRecords == 2
\* Longest run of whitespace put around a month token.
MaxPad == 1

(***************************************************************************)
(* Python values that are not strings.                                     *)
(***************************************************************************)
\* None, where a str or a list is expected: the text of a tag, or the value of
\* an attribute, that soup.find did not find.
None == <<"<None>">>
\* None, where a tag with children is expected (Journal, PubDate).
NoneTag == [none |-> TRUE]
\* An instance attribute that has not been assigned yet: where a str is
\* expected, and where a dict or a parsed document is.
Unset == <<"<unset>">>
UnsetAttr == [unset |-> TRUE]

AttributeError == "AttributeError"
ValueError == "ValueError"
KeyError == "KeyError"
IndexError == "IndexError"
NotAMonth == "ValueError: Not a month"

(***************************************************************************)
(* str methods.                                                            *)
(***************************************************************************)
UpperCase == <<"A","B","C","D","E","F","G","H","I","J","K","L","M",
               "N","O","P","Q","R","S","T","U","V","W","X","Y","Z">>
LowerCase == <<"a","b","c","d","e","f","g","h","i","j","k","l","m",
               "n","o","p","q","r","s","t","u","v","w","x","y","z">>
DigitChars == <<"0","1","2","3","4","5","6","7","8","9">>
WhiteSpace == {" ", "\t", "\n"}

Range(s) == {s[k] : k \in DOMAIN s}

\* str.lower() on one character.
LowerChar(c) ==
    IF \E k \in 1..26 : UpperCase[k] = c
    THEN LowerCase[CHOOSE k \in 1..26 : UpperCase[k] = c]
    ELSE c

\* str.lower()
lower(s) == [k \in DOMAIN s |-> LowerChar(s[k])]

\* s[:n]
Prefix(s, n) == SubSeq(s, 1, IF Len(s) < n THEN Len(s) ELSE n)

RECURSIVE lstrip(_)
lstrip(s) == IF s # <<>> /\ Head(s) \in WhiteSpace THEN lstrip(Tail(s)) ELSE s

RECURSIVE rstrip(_)
rstrip(s) ==
    IF s # <<>> /\ s[Len(s)] \in WhiteSpace
    THEN rstrip(SubSeq(s, 1, Len(s) - 1))
    ELSE s

\* str.strip()
strip(s) == rstrip(lstrip(s))

\* str.endswith('.')
endswithDot(s) == s # <<>> /\ s[Len(s)] = "."

RECURSIVE Concat(_)
\* ''.join(list)
Concat(list) == IF list = <<>> THEN <<>> ELSE Head(list) \o Concat(Tail(list))

RECURSIVE join(_, _)
\* sep.join(list)
join(sep, list) ==
    IF list = <<>> THEN <<>>
    ELSE IF Len(list) = 1 THEN list[1]
    ELSE list[1] \o sep \o join(sep, Tail(list))

RECURSIVE splitFrom(_, _, _)
\* The words of s from position k on; cur is the word being read.
splitFrom(s, k, cur) ==
    IF k > Len(s) THEN (IF cur = <<>> THEN <<>> ELSE <<cur>>)
    ELSE IF s[k] \in WhiteSpace
         THEN (IF cur = <<>> THEN <<>> ELSE <<cur>>) \o splitFrom(s, k + 1, <<>>)
         ELSE splitFrom(s, k + 1, Append(cur, s[k]))

\* str.split(): the maximal runs of non-whitespace characters.
split(s) == splitFrom(s, 1, <<>>)

RECURSIVE DigitsOf(_)
\* The decimal digits of a natural number.
DigitsOf(n) ==
    IF n < 10 THEN <<DigitChars[n + 1]>>
    ELSE DigitsOf(n \div 10) \o <<DigitChars[(n % 10) + 1]>>

\* str(i) for an int.
str(n) == IF n < 0 THEN <<"-">> \o DigitsOf(-n) ELSE DigitsOf(n)

\* "{:02d}".format(n): zero-padded to a width of two, sign included.
Format02d(n) ==
    IF 0 <= n /\ n < 10 THEN <<"0">> \o str(n) ELSE str(n)

DigitValue(c) == (CHOOSE k \in 1..10 : DigitChars[k] = c) - 1

RECURSIVE NatOf(_, _)
NatOf(s, acc) == IF s = <<>> THEN acc ELSE NatOf(Tail(s), 10 * acc + DigitValue(Head(s)))

\* int(s) for a str over ASCII digits, signs, whitespace and other characters:
\* surrounding whitespace is dropped, one sign is allowed, at least one digit
\* must follow and nothing else; anything else raises ValueError.
int(s) ==
    LET t == strip(s)
        signed == t # <<>> /\ Head(t) \in {"+", "-"}
        d == IF signed THEN Tail(t) ELSE t
    IN  IF d # <<>> /\ Range(d) \subseteq Range(DigitChars)
        THEN [ok |-> TRUE,
              val |-> IF signed /\ Head(t) = "-" THEN -NatOf(d, 0) ELSE NatOf(d, 0)]
        ELSE [ok |-> FALSE, err |-> ValueError]

(***************************************************************************)
(* Article.toFixDate                                                       *)
(***************************************************************************)
MonthKeys == << <<"j","a","n">>, <<"f","e","b">>, <<"m","a","r">>, <<"a","p","r">>,
                <<"m","a","y">>, <<"j","u","n">>, <<"j","u","l">>, <<"a","u","g">>,
                <<"s","e","p">>, <<"o","c","t">>, <<"n","o","v">>, <<"d","e","c">> >>

\* The dict literal of toFixDate: months[key], or KeyError.
months(a) ==
    IF \E m \in 1..12 : MonthKeys[m] = a
    THEN [ok |-> TRUE, val |-> Format02d(CHOOSE m \in 1..12 : MonthKeys[m] = a)]
    ELSE [ok |-> FALSE, err |-> KeyError]

\* toFixDate without the lower().
toFixDate_NoLower(x) ==
    LET a == Prefix(strip(x), 3)
    IN  IF months(a).ok THEN months(a) ELSE [ok |-> FALSE, err |-> NotAMonth]

toFixDate(x) ==
    LET a == lower(Prefix(strip(x), 3))
    IN  IF months(a).ok THEN months(a) ELSE [ok |-> FALSE, err |-> NotAMonth]

(***************************************************************************)
(* class Article.  A record (soup) is queried by tag name:                 *)
(*   ArticleTitle, PublicationType, ELocationID (EIdType="doi"), PMID:     *)
(*     the text of the first such tag, or None;                            *)
(*   Abstract: NoneTag, or [children], the children of the Abstract tag in *)
(*     source order, each [tag, Label, text] (Label = None: no such        *)
(*     attribute; tag = "#text": a string outside any AbstractText);       *)
(*   Author: the Author tags in source order, each                         *)
(*     [LastName, ForeName, Affiliation];                                  *)
(*   Journal: NoneTag, or [Title, PubDate], PubDate being NoneTag or       *)
(*     [Year, Month, Day];                                                 *)
(*   Keyword: the texts of the Keyword tags in source order.               *)
(* A method returns [ok |-> TRUE, ...] or [ok |-> FALSE, err |-> e] when   *)
(* the exception e leaves it.                                              *)
(***************************************************************************)
Raise(e) == [ok |-> FALSE, err |-> e]

toFindTitle(s) ==
    IF s.ArticleTitle = None THEN Raise(AttributeError)
    ELSE LET title == s.ArticleTitle
         IN  [ok |-> TRUE,
              title |-> IF endswithDot(title) THEN SubSeq(title, 1, Len(title) - 1)
                        ELSE title]

\* raw_abstract.text: the concatenation of every string below the tag.
RawText(children) == Concat([k \in DOMAIN children |-> children[k].text])

\* find_all('AbstractText')
AbstractTexts(children) == SelectSeq(children, LAMBDA c : c.tag = "AbstractText")

AbstractHeading == <<"# Abstract:\n\n">>

\* toFindAbstract with the fallback taken per segment: a segment without a
\* Label is left out and the others are kept.
toFindAbstract_PerSegment(s) ==
    IF s.Abstract = NoneTag THEN Raise(AttributeError)
    ELSE LET segs == AbstractTexts(s.Abstract.children)
             labelled == SelectSeq(segs, LAMBDA c : c.Label # None)
             abstract_list == [k \in DOMAIN labelled |->
                                 labelled[k].Label \o <<":", " ">> \o labelled[k].text]
         IN  [ok |-> TRUE,
              abstract |-> AbstractHeading \o
                  (IF segs = <<>> THEN RawText(s.Abstract.children)
                   ELSE join(<<"\n", "\n">>, abstract_list))]

toFindAbstract(s) ==
    IF s.Abstract = NoneTag THEN Raise(AttributeError)
    ELSE LET raw_abstract_children == AbstractTexts(s.Abstract.children)
             abstract_list == [k \in DOMAIN raw_abstract_children |->
                                 raw_abstract_children[k].Label \o <<":", " ">>
                                     \o raw_abstract_children[k].text]
             abstract ==
                 IF raw_abstract_children = <<>> THEN RawText(s.Abstract.children)
                 ELSE IF \E k \in DOMAIN raw_abstract_children :
                            raw_abstract_children[k].Label = None
                      THEN RawText(s.Abstract.children)     \* except KeyError
                      ELSE join(<<"\n", "\n">>, abstract_list)
         IN  [ok |-> TRUE, abstract |-> AbstractHeading \o abstract]

NONE == <<"N","O","N","E">>

RECURSIVE Dedup(_, _)
\* list_affiliations after the texts of affs were added to acc in order.
Dedup(affs, acc) ==
    IF affs = <<>> THEN acc
    ELSE Dedup(Tail(affs),
               IF Head(affs) \in Range(acc) THEN acc ELSE Append(acc, Head(affs)))

\* str.replace("?", "e")
replaceQ(t) == [k \in DOMAIN t |-> IF t[k] = "?" THEN "e" ELSE t[k]]

toFindAuthors(s) ==
    LET raw_authors == s.Author
        lastname == [k \in DOMAIN raw_authors |->
                        IF raw_authors[k].LastName = None THEN NONE
                        ELSE raw_authors[k].LastName]
        forename == [k \in DOMAIN raw_authors |->
                        IF raw_authors[k].ForeName = None THEN NONE
                        ELSE raw_authors[k].ForeName]
        list_affiliations ==
            Dedup(Concat([k \in DOMAIN raw_authors |-> raw_authors[k].Affiliation]), <<>>)
        authors_list == [k \in DOMAIN raw_authors |-> forename[k] \o <<" ">> \o lastname[k]]
        authors_print == [k \in DOMAIN raw_authors |->
                             <<"  - name: ">>
                                 \o authors_list[k] \o <<"\n">>]
    IN  IF authors_list = <<>> THEN Raise(IndexError)     \* authors_list[0]
        ELSE [ok |-> TRUE,
              author |-> authors_list[1],
              authors |-> replaceQ(Concat(authors_print)),
              affiliations |-> join(<<" ","|"," ">>, list_affiliations)]

toFindJournal(s) ==
    IF s.Journal = NoneTag THEN Raise(AttributeError)
    ELSE IF s.Journal.Title = None THEN Raise(AttributeError)
    ELSE [ok |-> TRUE, journal |-> s.Journal.Title]

\* The try block of toFindDate: the day, or the exception that leaves it.
DayOf(raw_date) ==
    IF raw_date = NoneTag THEN [ok |-> TRUE, val |-> Format02d(0)]       \* AttributeError
    ELSE IF raw_date.Day = None THEN [ok |-> TRUE, val |-> Format02d(0)]
    ELSE IF int(raw_date.Day).ok
         THEN [ok |-> TRUE, val |-> Format02d(int(raw_date.Day).val)]
         ELSE Raise(ValueError)

toFindDate(s) ==
    IF s.Journal = NoneTag THEN Raise(AttributeError)
    ELSE LET raw_date == s.Journal.PubDate
             day == DayOf(raw_date)
         IN  IF ~day.ok THEN day
             ELSE IF raw_date = NoneTag THEN Raise(AttributeError)
             ELSE IF raw_date.Year = None THEN Raise(AttributeError)
             ELSE IF raw_date.Month = None THEN Raise(AttributeError)
             ELSE IF ~toFixDate(raw_date.Month).ok THEN toFixDate(raw_date.Month)
             ELSE LET datelist == <<raw_date.Year, toFixDate(raw_date.Month).val, day.val>>
                  IN  [ok |-> TRUE,
                       datelist |-> datelist,
                       date |-> datelist[1] \o <<"-">> \o datelist[2] \o <<"-">> \o datelist[3]]

toFindPtype(s) ==
    IF s.PublicationType = None THEN Raise(AttributeError)
    ELSE [ok |-> TRUE, ptype |-> s.PublicationType]

toFindKeywords(s) ==
    [ok |-> TRUE, keywords |-> <<"[">> \o join(<<",", " ">>, s.Keyword) \o <<"]">>]

\* toFindDoi with an empty DOI substituted for a missing one.
toFindDoi_Default(s) ==
    [ok |-> TRUE, doi |-> IF s.ELocationID = None THEN <<>> ELSE s.ELocationID]

toFindDoi(s) ==
    IF s.ELocationID = None THEN Raise(AttributeError)
    ELSE [ok |-> TRUE, doi |-> s.ELocationID]

toFindPmid(s) ==
    IF s.PMID = None THEN Raise(AttributeError)
    ELSE [ok |-> TRUE, pmid |-> s.PMID]

\* Article.__init__: the extractors in order; the first exception leaves it.
Article(s) ==
    LET t == toFindTitle(s)
        ab == toFindAbstract(s)
        au == toFindAuthors(s)
        j == toFindJournal(s)
        d == toFindDate(s)
        pt == toFindPtype(s)
        kw == toFindKeywords(s)
        doi == toFindDoi(s)
        pm == toFindPmid(s)
    IN  IF ~t.ok THEN t
        ELSE IF ~ab.ok THEN ab
        ELSE IF ~au.ok THEN au
        ELSE IF ~j.ok THEN j
        ELSE IF ~d.ok THEN d
        ELSE IF ~pt.ok THEN pt
        ELSE IF ~kw.ok THEN kw
        ELSE IF ~doi.ok THEN doi
        ELSE IF ~pm.ok THEN pm
        ELSE [ok |-> TRUE, soup |-> s, title |-> t.title, abstract |-> ab.abstract,
              author |-> au.author, authors |-> au.authors,
              affiliations |-> au.affiliations, journal |-> j.journal,
              datelist |-> d.datelist, date |-> d.date, ptype |-> pt.ptype,
              keywords |-> kw.keywords, doi |-> doi.doi, pmid |-> pm.pmid]

(***************************************************************************)
(* Article.toPublish                                                       *)
(***************************************************************************)
\* re.sub('[^a-zA-Z0-9s\\_]', '', t): keeps ASCII letters, digits and "_".
SlugChars == Range(UpperCase) \cup Range(LowerCase) \cup Range(DigitChars) \cup {"_"}

reSub(t) == SelectSeq(t, LAMBDA c : c \in SlugChars)

\* unidecode on one character: ASCII is kept, an accented letter loses its accent.
UnidecodeChar(c) == IF c = "e_acute" THEN "e" ELSE c

unidecode(t) == [k \in DOMAIN t |-> UnidecodeChar(t[k])]

post_name(a) ==
    LET title_part == lower(reSub(join(<<"_">>, Prefix(split(a.title), 6))))
    IN  a.datelist[1] \o <<"_">> \o a.datelist[2] \o <<"_">> \o a.datelist[3]
            \o <<"_">> \o title_part

\* The template of toPublish filled in: its fixed text is the same for every
\* article, so a document is given by the values of its six slots.
new_post(a) ==
    [title |-> <<"\"">> \o unidecode(a.title) \o <<"\"">>,
     description |-> <<"\"">> \o unidecode(a.affiliations) \o <<"\"">>,
     authors |-> unidecode(a.authors),
     date |-> <<"\"">> \o unidecode(a.date) \o <<"\"">>,
     categories |-> a.keywords,
     abstract |-> unidecode(a.abstract)]

\* The file system below ./publications/posts after a.toPublish(): dirs are the
\* post directories, files maps a post directory to the content of its index.qmd.
\* toPublish leaving an index.qmd that exists as it is.
toPublish_KeepExisting(a, f) ==
    LET path == post_name(a)
    IN  [dirs |-> f.dirs \cup {path},
         files |-> [p \in DOMAIN f.files \cup {path} |->
                       IF p \in DOMAIN f.files THEN f.files[p] ELSE new_post(a)]]

toPublish(a, f) ==
    LET path == post_name(a)
        dirs == IF path \in f.dirs THEN f.dirs ELSE f.dirs \cup {path}
    IN  [dirs |-> dirs,
         files |-> [p \in DOMAIN f.files \cup {path} |->
                       IF p = path THEN new_post(a) ELSE f.files[p]]]

(***************************************************************************)
(* The records the functions are applied to.                               *)
(***************************************************************************)
\* At most this many of a record's tags are absent at once.
MaxAbsent == 2
\* Longest Abstract (number of children).
MaxChildren == 3

Titles == { <<"N","e","u","r","a","l"," ","X",".">>,
            <<"D","e_acute","j","a",":"," ","v","-","2"," ","_","?">>,
            <<"a"," ","b","\t","c"," "," ","d"," ","e"," ","f"," ","g">> }

Years == { <<"2","0","2","0">>, <<"2","0","/","1">> }

Days == { <<"7">>, <<"1","2">>, <<" ","3","\n">>, <<"-","1">>, <<"x">>, <<>> }

SomeAbstract == [children |-> << [tag |-> "#text", Label |-> None, text |-> <<"T","x","t">>] >>]

SomeAuthors ==
    << [LastName |-> <<"B","o","u","i","x">>, ForeName |-> <<"S","?","l">>,
        Affiliation |-> << <<"E","T","S">>, <<"M","G","H">> >>],
       [LastName |-> <<"V">>, ForeName |-> None,
        Affiliation |-> << <<"E","T","S">> >>] >>

\* A record with every tag present.
FullRecord(title, year, month, day) ==
    [ArticleTitle |-> title,
     Abstract |-> SomeAbstract,
     Author |-> SomeAuthors,
     Journal |-> [Title |-> <<"J">>,
                  PubDate |-> [Year |-> year, Month |-> month, Day |-> day]],
     PublicationType |-> <<"R","e","v","i","e","w">>,
     Keyword |-> << <<"M","R","I">>, <<"A","I">> >>,
     ELocationID |-> <<"1","0",".","1","/","x">>,
     PMID |-> <<"4","2">>]

Tags == {"ArticleTitle", "Abstract", "Author", "Journal", "Title", "PubDate",
         "Year", "Month", "Day", "PublicationType", "Keyword", "ELocationID", "PMID"}

\* The record r with the tags of gone removed.
Without(r, gone) ==
    LET pubdate == IF "PubDate" \in gone THEN NoneTag
                   ELSE [Year |-> IF "Year" \in gone THEN None ELSE r.Journal.PubDate.Year,
                         Month |-> IF "Month" \in gone THEN None ELSE r.Journal.PubDate.Month,
                         Day |-> IF "Day" \in gone THEN None ELSE r.Journal.PubDate.Day]
    IN  [ArticleTitle |-> IF "ArticleTitle" \in gone THEN None ELSE r.ArticleTitle,
         Abstract |-> IF "Abstract" \in gone THEN NoneTag ELSE r.Abstract,
         Author |-> IF "Author" \in gone THEN <<>> ELSE r.Author,
         Journal |-> IF "Journal" \in gone THEN NoneTag
                     ELSE [Title |-> IF "Title" \in gone THEN None ELSE r.Journal.Title,
                           PubDate |-> pubdate],
         PublicationType |-> IF "PublicationType" \in gone THEN None ELSE r.PublicationType,
         Keyword |-> IF "Keyword" \in gone THEN <<>> ELSE r.Keyword,
         ELocationID |-> IF "ELocationID" \in gone THEN None ELSE r.ELocationID,
         PMID |-> IF "PMID" \in gone THEN None ELSE r.PMID]

Mar == <<"M","a","r">>

RecordInputs ==
    { Without(FullRecord(t, y, Mar, d), gone) :
        t \in Titles, y \in Years, d \in Days,
        gone \in {g \in SUBSET Tags : Cardinality(g) <= MaxAbsent} }

\* The children an Abstract is made of.
Children ==
    { [tag |-> "#text", Label |-> None, text |-> <<"\n">>],
      [tag |-> "AbstractText", Label |-> <<"A","I","M">>, text |-> <<"a",".">>],
      [tag |-> "AbstractText", Label |-> <<"R","E","S">>, text |-> <<"r","e_acute">>],
      [tag |-> "AbstractText", Label |-> None, text |-> <<"n","o">>] }

RECURSIVE SeqsUpTo(_, _)
\* The sequences over S of length at most n.
SeqsUpTo(S, n) ==
    IF n = 0 THEN {<<>>}
    ELSE SeqsUpTo(S, n - 1)
            \cup {Append(q, e) : q \in {q \in SeqsUpTo(S, n - 1) : Len(q) = n - 1}, e \in S}

AbstractInputs ==
    { [FullRecord(<<"T">>, <<"2","0","2","0">>, Mar, <<"7">>)
          EXCEPT !.Abstract = [children |-> c]] : c \in SeqsUpTo(Children, MaxChildren) }

ToUpper(s) == [k \in DOMAIN s |->
                 IF \E n \in 1..26 : LowerCase[n] = s[k]
                 THEN UpperCase[CHOOSE n \in 1..26 : LowerCase[n] = s[k]] ELSE s[k]]

\* Month tokens: every abbreviation in four spellings, and tokens that are none.
MonthCores ==
    UNION { { MonthKeys[m], ToUpper(MonthKeys[m]),
              <<ToUpper(MonthKeys[m])[1], MonthKeys[m][2], MonthKeys[m][3]>>,
              <<MonthKeys[m][1], ToUpper(MonthKeys[m])[2], MonthKeys[m][3]>> } : m \in 1..12 }
      \cup { <<>>, <<"j">>, <<"j","a">>, <<"j","x","n">>, <<"a","n","j">>,
             <<"j"," ","a","n">>, <<"1","2">>, <<"x","y","z">>, <<"M","A">> }

MonthSuffixes == { <<>>, <<"u","a","r","y">>, <<"n">>, <<".">>, <<" ","1">> }

MonthInputs ==
    { a \o c \o s \o b : a \in SeqsUpTo(WhiteSpace, MaxPad), c \in MonthCores,
                         s \in MonthSuffixes, b \in SeqsUpTo(WhiteSpace, MaxPad) }

(***************************************************************************)
(* Initial state of the form (ArticlesFinder.__init__) and of the posts    *)
(* directory.                                                              *)
(***************************************************************************)
EmptyFS == [dirs |-> {}, files |-> <<>>]

\* What the last search callback did, and what the last publish callback
\* since did: the esearch response read and the requests sent; the keys
\* toPublish was called for, in order, and whether published_warning was set.
NoTrace == [search |-> [ran |-> FALSE],
            publish |-> [ran |-> FALSE]]

InitForm ==
    /\ resultframe = <<>>
    /\ n_widget = 8
    /\ fetched_url = <<>>
    /\ qk = Unset /\ we = Unset
    /\ soup = UnsetAttr
    /\ published_warning = Unset
    /\ button_dict = UnsetAttr
    /\ article_dict = UnsetAttr
    /\ i = 0
    /\ trace = NoTrace

(***************************************************************************)
(* toFixDate applied to a month token, alone and as toFindDate calls it    *)
(* while an Article is constructed.                                        *)
(***************************************************************************)
InitFixDate ==
    /\ InitForm /\ fs = EmptyFS
    /\ pc = "call"
    /\ arg \in MonthInputs
    /\ ret = Unset

CallFixDate ==
    /\ pc = "call"
    /\ ret' = [fix |-> toFixDate(arg),
               article |-> Article(FullRecord(<<"T">>, <<"2","0","2","0">>, arg, <<"7">>))]
    /\ pc' = "return"
    /\ UNCHANGED <<resultframe, n_widget, fetched_url, qk, we, soup,
                   published_warning, button_dict, article_dict, i, fs, trace, arg>>

SpecFixDate == InitFixDate /\ [][CallFixDate]_vars

(***************************************************************************)
(* An Article constructed from a record, then published.                   *)
(***************************************************************************)
InitArticle ==
    /\ InitForm /\ fs = EmptyFS
    /\ pc = "call"
    /\ arg \in RecordInputs \cup AbstractInputs
    /\ ret = Unset

Construct ==
    /\ pc = "call"
    /\ ret' = Article(arg)
    /\ pc' = "made"
    /\ UNCHANGED <<resultframe, n_widget, fetched_url, qk, we, soup,
                   published_warning, button_dict, article_dict, i, fs, trace, arg>>

Publish ==
    /\ pc = "made" /\ ret.ok
    /\ fs' = toPublish(ret, fs)
    /\ pc' = "published"
    /\ UNCHANGED <<resultframe, n_widget, fetched_url, qk, we, soup,
                   published_warning, button_dict, article_dict, i, trace, arg, ret>>

NextArticle == Construct \/ Publish

SpecArticle == InitArticle /\ [][NextArticle]_vars

(***************************************************************************)
(* class ArticlesFinder: the callbacks of the form.  A dict is [items],    *)
(* its (key, value) pairs in insertion order.                              *)
(***************************************************************************)
EmptyDict == [items |-> <<>>]

Keys(d) == IF d = UnsetAttr THEN {} ELSE {d.items[k][1] : k \in DOMAIN d.items}

\* d[key]
Get(d, key) == (d.items[CHOOSE k \in DOMAIN d.items : d.items[k][1] = key])[2]

\* d[key] = value
Set(d, key, value) ==
    IF key \in Keys(d)
    THEN [items |-> [k \in DOMAIN d.items |->
                        IF d.items[k][1] = key THEN <<key, value>> ELSE d.items[k]]]
    ELSE [items |-> Append(d.items, <<key, value>>)]

\* Which of the four tags toSearch reads an esearch response carries.
Response(error, message, querykey, webenv) ==
    [ERROR |-> IF error THEN <<"Empty term">> ELSE None,
     OutputMessage |-> IF message THEN <<"No items found.">> ELSE None,
     QueryKey |-> IF querykey THEN <<"1">> ELSE None,
     WebEnv |-> IF webenv THEN <<"MCID_1">> ELSE None]

\* The esearch responses: each of the four tags is absent or present.
SearchResponses ==
    { Response(e, m, q, w) : e \in BOOLEAN, m \in BOOLEAN, q \in BOOLEAN, w \in BOOLEAN }

\* The try blocks of toSearch (lines 458-472) on the parsed response:
\* the status text set, the tokens read, whether the fetch follows, and
\* the exception that leaves the callback, if any.
SearchOutcome_IgnoreMessage(resp) ==
    IF resp.ERROR # None
    THEN [status |-> resp.ERROR, qk |-> None, we |-> None,
          article_found |-> FALSE, raised |-> None]
    ELSE IF resp.QueryKey = None
    THEN [status |-> None, qk |-> None, we |-> None,
          article_found |-> FALSE, raised |-> <<AttributeError>>]
    ELSE IF resp.WebEnv = None
    THEN [status |-> None, qk |-> resp.QueryKey, we |-> None,
          article_found |-> FALSE, raised |-> <<AttributeError>>]
    ELSE [status |-> None, qk |-> resp.QueryKey, we |-> resp.WebEnv,
          article_found |-> TRUE, raised |-> None]

SearchOutcome(resp) ==
    IF resp.ERROR # None
    THEN [status |-> resp.ERROR, qk |-> None, we |-> None,
          article_found |-> FALSE, raised |-> None]
    ELSE IF resp.OutputMessage # None
    THEN [status |-> resp.OutputMessage, qk |-> None, we |-> None,
          article_found |-> FALSE, raised |-> None]
    ELSE IF resp.QueryKey = None
    THEN [status |-> None, qk |-> None, we |-> None,
          article_found |-> FALSE, raised |-> <<AttributeError>>]
    ELSE IF resp.WebEnv = None
    THEN [status |-> None, qk |-> resp.QueryKey, we |-> None,
          article_found |-> FALSE, raised |-> <<AttributeError>>]
    ELSE [status |-> None, qk |-> resp.QueryKey, we |-> resp.WebEnv,
          article_found |-> TRUE, raised |-> None]

\* The Search button: toResetFrame, the esearch request, the response read.
toSearch(resp) ==
    LET o == SearchOutcome(resp)
    IN  /\ pc = "idle"
        /\ resultframe' = <<>>                              \* toResetFrame
        /\ n_widget' = n_widget - Len(resultframe)
        /\ fetched_url' = IF o.status # None THEN o.status ELSE fetched_url
        /\ qk' = IF o.qk # None THEN o.qk ELSE qk
        /\ we' = IF o.we # None THEN o.we ELSE we
        /\ trace' = [search |-> [ran |-> TRUE, response |-> resp,
                                 requests |-> <<"esearch">>, fetched |-> <<>>,
                                 split |-> "no"],
                     publish |-> [ran |-> FALSE]]
        /\ pc' = IF o.article_found THEN "toFetch" ELSE "idle"
        /\ UNCHANGED <<soup, published_warning, button_dict, article_dict, i, fs, arg, ret>>

\* toFetch up to its call of toSplit: the efetch request and its response.
toFetch(records) ==
    /\ pc = "toFetch"
    /\ soup' = [PubmedArticle |-> records]
    /\ fetched_url' = <<"Fetch URL:\n", "efetch.fcgi?db=pubmed&usehistory=y&query_key=">>
                          \o qk \o <<"&WebEnv=">> \o we
    /\ trace' = [trace EXCEPT !.search.requests = Append(@, "efetch"),
                              !.search.fetched = records]
    /\ pc' = "toSplit"
    /\ UNCHANGED <<resultframe, n_widget, qk, we, published_warning, button_dict,
                   article_dict, i, fs, arg, ret>>

\* toSplit, lines 492-498: the status variable and its label.
SplitWarning ==
    /\ pc = "toSplit"
    /\ published_warning' = <<>>
    /\ n_widget' = n_widget + 1
    /\ resultframe' = Append(resultframe, [widget |-> "Label"])
    /\ pc' = "button_dict"
    /\ UNCHANGED <<fetched_url, qk, we, soup, button_dict, article_dict, i, fs, trace,
                   arg, ret>>

\* toSplit, line 500.
SplitButtonDict ==
    /\ pc = "button_dict"
    /\ button_dict' = EmptyDict
    /\ pc' = "article_dict"
    /\ UNCHANGED <<resultframe, n_widget, fetched_url, qk, we, soup, published_warning,
                   article_dict, i, fs, trace, arg, ret>>

\* Where toSplit goes on once n records are done: the next record, or the end.
AfterRecord(n) == IF n < Len(soup.PubmedArticle) THEN "Article" ELSE "idle"

\* toSplit, lines 501-502.
SplitArticleDict ==
    /\ pc = "article_dict"
    /\ article_dict' = EmptyDict
    /\ i' = 0
    /\ pc' = AfterRecord(0)
    /\ trace' = IF AfterRecord(0) = "idle" THEN [trace EXCEPT !.search.split = "done"]
                ELSE trace
    /\ UNCHANGED <<resultframe, n_widget, fetched_url, qk, we, soup, published_warning,
                   button_dict, fs, arg, ret>>

\* The key of the record after record n.
ButtonKey_Next(n) == str(n + 1)

\* The key of record n in button_dict (line 506).
ButtonKey(n) == str(n)

\* toSplit, line 503: the Article of record i, or the exception of its
\* constructor, which leaves the callback.
SplitArticle ==
    /\ pc = "Article"
    /\ LET a == Article(soup.PubmedArticle[i + 1])
       IN  IF a.ok
           THEN /\ article_dict' = Set(article_dict, str(i), a)
                /\ pc' = "Checkbutton"
                /\ trace' = trace
           ELSE /\ article_dict' = article_dict
                /\ pc' = "idle"
                /\ trace' = [trace EXCEPT !.search.split = a.err]
    /\ UNCHANGED <<resultframe, n_widget, fetched_url, qk, we, soup, published_warning,
                   button_dict, i, fs, arg, ret>>

\* toSplit, lines 504-509: the selection flag and the check button of record i.
SplitCheckbutton ==
    /\ pc = "Checkbutton"
    /\ LET a == Get(article_dict, str(i))
           t == a.title \o <<",", " ">> \o a.date \o <<",", " ">> \o a.author
       IN  /\ button_dict' = Set(button_dict, ButtonKey(i), 0)
           /\ resultframe' = Append(resultframe,
                                    [widget |-> "Checkbutton", text |-> t, variable |-> str(i)])
    /\ n_widget' = n_widget + 1
    /\ i' = i + 1
    /\ pc' = AfterRecord(i + 1)
    /\ trace' = IF AfterRecord(i + 1) = "idle" THEN [trace EXCEPT !.search.split = "done"]
                ELSE trace
    /\ UNCHANGED <<fetched_url, qk, we, soup, published_warning, article_dict, fs, arg, ret>>

\* The user clicks a check button of the result frame: its variable flips.
Toggle(key) ==
    /\ pc = "idle"
    /\ \E k \in DOMAIN resultframe :
          resultframe[k].widget = "Checkbutton" /\ resultframe[k].variable = key
    /\ button_dict' = Set(button_dict, key, 1 - Get(button_dict, key))
    /\ UNCHANGED <<pc, resultframe, n_widget, fetched_url, qk, we, soup, published_warning,
                   article_dict, i, fs, trace, arg, ret>>

RECURSIVE CheckLoop(_, _, _, _)
\* The loop of toCheckButtons over items k.. of button_dict, from the file
\* system f and the keys done so far: the file system, the keys toPublish was
\* called for, and the KeyError of a key article_dict lacks, which ends it.
CheckLoop(items, k, f, done) ==
    IF k > Len(items) THEN [fs |-> f, published |-> done, raised |-> None]
    ELSE IF items[k][2] = 0 THEN CheckLoop(items, k + 1, f, done)
    ELSE IF items[k][1] \notin Keys(article_dict)
         THEN [fs |-> f, published |-> done, raised |-> <<KeyError>>]
         ELSE CheckLoop(items, k + 1, toPublish(Get(article_dict, items[k][1]), f),
                        Append(done, items[k][1]))

\* The loop ending at the first article published.
PublishSelected_First(items) ==
    LET first == {k \in DOMAIN items : items[k][2] # 0}
    IN  IF first = {} THEN CheckLoop(items, 1, fs, <<>>)
        ELSE CheckLoop(SubSeq(items, 1, CHOOSE k \in first : \A n \in first : k <= n),
                       1, fs, <<>>)

PublishSelected(items) == CheckLoop(items, 1, fs, <<>>)

\* The Publish button.
toCheckButtons ==
    /\ pc = "idle"
    /\ IF button_dict = UnsetAttr                       \* except AttributeError
       THEN /\ fs' = fs
            /\ published_warning' = published_warning
            /\ trace' = [trace EXCEPT !.publish =
                            [ran |-> TRUE, published |-> <<>>, warned |-> FALSE,
                             raised |-> None]]
       ELSE LET r == PublishSelected(button_dict.items)
            IN  /\ fs' = r.fs
                /\ published_warning' =
                       IF r.published # <<>> THEN <<"Published !">> ELSE published_warning
                /\ trace' = [trace EXCEPT !.publish =
                                [ran |-> TRUE, published |-> r.published,
                                 warned |-> r.published # <<>>, raised |-> r.raised]]
    /\ UNCHANGED <<pc, resultframe, n_widget, fetched_url, qk, we, soup, button_dict,
                   article_dict, i, arg, ret>>

\* The records a fetch response is made of: two of the same date and title
\* words, one of another title, one without a DOI.
Neural == <<"N","e","u","r","a","l"," ","X",".">>
Y2020 == <<"2","0","2","0">>
D7 == <<"7">>

Catalog ==
    { FullRecord(Neural, Y2020, Mar, D7),
      [FullRecord(<<"n","e","u","r","a","l"," ","x","!">>, Y2020, Mar, D7)
          EXCEPT !.PMID = <<"4","3">>],
      Without(FullRecord(Neural, Y2020, Mar, D7), {"ELocationID"}) }

\* The posts directory as the form finds it: one post of an earlier session.
PriorFS ==
    toPublish(Article(FullRecord(<<"O","l","d">>, <<"2","0","1","9">>, <<"J","a","n">>, None)),
              EmptyFS)

Init ==
    /\ InitForm
    /\ pc = "idle"
    /\ fs = PriorFS
    /\ arg = <<>> /\ ret = <<>>

Next ==
    \/ \E resp \in SearchResponses : toSearch(resp)
    \/ \E records \in SeqsUpTo(Catalog, MaxRecords) : toFetch(records)
    \/ SplitWarning
    \/ SplitButtonDict
    \/ SplitArticleDict
    \/ SplitArticle
    \/ SplitCheckbutton
    \/ \E key \in Keys(button_dict) : Toggle(key)
    \/ toCheckButtons

Spec == Init /\ [][Next]_vars

(***************************************************************************)
(* Properties of the form (Spec).                                          *)
(***************************************************************************)
\* A step of the Publish button: no other step from the mainloop leaves both
\* the search trace and the selection flags as they are.
PublishStep == trace'.search = trace.search /\ button_dict' = button_dict /\ toCheckButtons

\* The key of the n-th record of a batch, counted from 1.
KeyOf(n) == <<DigitChars[n]>>

\* The keys of button_dict whose flag is set.
Selected == {k \in Keys(button_dict) : Get(button_dict, k) # 0}

\* C1: a publish action calls toPublish once for every key whose flag is set
\* and for no other key, and sets 'Published !' exactly when it published
\* something; with nothing selected, or with no table yet, it writes nothing
\* and leaves the status alone.
C1_PublishSelected ==
    [][PublishStep =>
          LET done == trace'.publish.published
          IN  /\ Range(done) = Selected
              /\ Len(done) = Cardinality(Selected)
              /\ trace'.publish.warned <=> (Selected # {})
              /\ (Selected # {}) => published_warning' = <<"Published !">>
              /\ (Selected = {}) => fs' = fs /\ published_warning' = published_warning
              /\ \A k \in Selected : post_name(Get(article_dict, k)) \in DOMAIN fs'.files]_vars

\* Of two records split, the second alone was selected and published.
C1_Witness ==
    /\ trace.publish.ran
    /\ button_dict # UnsetAttr
    /\ button_dict.items = << <<KeyOf(1), 0>>, <<KeyOf(2), 1>> >>
    /\ trace.publish.published = <<KeyOf(2)>>
    /\ published_warning = <<"Published !">>
    /\ fs.dirs = PriorFS.dirs \cup {post_name(Get(article_dict, KeyOf(2)))}

\* C3 as stated: the content of an index file that exists is never changed.
C3_NoOverwrite ==
    [][\A p \in DOMAIN fs.files : p \in DOMAIN fs'.files /\ fs'.files[p] = fs.files[p]]_vars

\* C3 amended: a publish action keeps every directory that exists, creates the
\* directory of each article it publishes if it is missing, and writes that
\* article's document to the index file whether or not the file exists: the
\* file holds the document of the last article published to that path, and
\* paths no article was published to are left as they were.
C3_DirsKeptFilesWritten ==
    [][PublishStep =>
          LET done == trace'.publish.published
              path(k) == post_name(Get(article_dict, done[k]))
              paths == {path(k) : k \in DOMAIN done}
              last(p) == CHOOSE k \in DOMAIN done :
                             path(k) = p /\ \A n \in DOMAIN done : path(n) = p => n <= k
          IN  /\ fs'.dirs = fs.dirs \cup paths
              /\ DOMAIN fs'.files = DOMAIN fs.files \cup paths
              /\ \A p \in paths : fs'.files[p] = new_post(Get(article_dict, done[last(p)]))
              /\ \A p \in DOMAIN fs.files \ paths : fs'.files[p] = fs.files[p]]_vars

\* Two articles of one slug were published by one action: one directory, and
\* the index file holds the document of the second.
C3_Witness ==
    /\ trace.publish.ran
    /\ trace.publish.published = <<KeyOf(1), KeyOf(2)>>
    /\ Cardinality(fs.dirs \ PriorFS.dirs) = 1
    /\ new_post(Get(article_dict, KeyOf(1))) # new_post(Get(article_dict, KeyOf(2)))
    /\ \A p \in fs.dirs \ PriorFS.dirs : fs.files[p] = new_post(Get(article_dict, KeyOf(2)))
    /\ \A p \in PriorFS.dirs : fs.files[p] = PriorFS.files[p]

\* C8: after a search whose response carries an ERROR or an OutputMessage the
\* status display shows that text, no fetch request was sent and nothing was
\* split; a fetch is under way or was sent only when the response carried
\* neither and both tokens were read.
C8_NoFetchOnError ==
    trace.search.ran =>
        LET r == trace.search.response
        IN  /\ (r.ERROR # None \/ r.OutputMessage # None) =>
                  /\ fetched_url = IF r.ERROR # None THEN r.ERROR ELSE r.OutputMessage
                  /\ trace.search.requests = <<"esearch">>
                  /\ pc = "idle"
                  /\ resultframe = <<>>
                  /\ trace.search.split = "no"
            /\ (pc # "idle" \/ trace.search.requests # <<"esearch">>) =>
                  /\ r.ERROR = None /\ r.OutputMessage = None
                  /\ r.QueryKey # None /\ r.WebEnv # None
                  /\ qk = r.QueryKey /\ we = r.WebEnv

\* A search that ended with a message, after an earlier search was split.
C8_Witness ==
    /\ trace.search.ran
    /\ trace.search.response = Response(FALSE, TRUE, TRUE, TRUE)
    /\ fetched_url = <<"No items found.">>
    /\ Keys(article_dict) # {}
    /\ pc = "idle"

\* C9: the keys of the selection table are keys of the article table after
\* every step, so that a publish action never misses an article; and when a split
\* of N records completes both tables have the keys 0..N-1 in order, entry i
\* wraps record i and every flag is unset.
C9_Tables ==
    [][/\ Keys(button_dict') \subseteq Keys(article_dict')
       /\ trace'.publish.ran => trace'.publish.raised = None
       /\ (pc # "idle" /\ pc' = "idle" /\ trace'.search.split = "done") =>
             LET list_articles == soup.PubmedArticle
             IN  /\ button_dict'.items = [k \in DOMAIN list_articles |-> <<KeyOf(k), 0>>]
                 /\ DOMAIN article_dict'.items = DOMAIN list_articles
                 /\ \A k \in DOMAIN list_articles :
                       /\ article_dict'.items[k][1] = KeyOf(k)
                       /\ article_dict'.items[k][2].soup = list_articles[k]]_vars

\* A split of two records has completed.
C9_Witness ==
    /\ pc = "idle"
    /\ trace.search.ran
    /\ trace.search.split = "done"
    /\ Len(soup.PubmedArticle) = 2
    /\ Keys(button_dict) = {KeyOf(1), KeyOf(2)}
    /\ Keys(article_dict) = {KeyOf(1), KeyOf(2)}

\* C10 as stated: every article a publish action writes is a record of the
\* fetch response of the most recent search; after a search that sent no
\* fetch request nothing is written.
C10_OnlyLatestResults ==
    [][PublishStep =>
          \A k \in DOMAIN trace'.publish.published :
              LET key == trace'.publish.published[k]
              IN  /\ trace.search.ran
                  /\ trace.search.requests = <<"esearch", "efetch">>
                  /\ \E n \in DOMAIN trace.search.fetched :
                        /\ KeyOf(n) = key
                        /\ Get(article_dict, key).soup = trace.search.fetched[n]]_vars

(***************************************************************************)
(* Properties of the Date Normalizer (SpecFixDate).                        *)
(***************************************************************************)
\* The first three characters of x once the whitespace around it is dropped.
FirstThree(x) ==
    LET inked == {k \in DOMAIN x : x[k] \notin WhiteSpace}
    IN  IF inked = {} THEN <<>>
        ELSE LET lo == CHOOSE k \in inked : \A n \in inked : k <= n
                 hi == CHOOSE k \in inked : \A n \in inked : n <= k
             IN  SubSeq(x, lo, IF hi < lo + 2 THEN hi ELSE lo + 2)

\* t spells the m-th month abbreviation, in any case.
SpellsMonth(t, m) ==
    /\ Len(t) = 3
    /\ \A k \in 1..3 : t[k] \in {MonthKeys[m][k], ToUpper(MonthKeys[m])[k]}

TwoDigits(m) == <<DigitChars[(m \div 10) + 1], DigitChars[(m % 10) + 1]>>

\* C7: toFixDate returns the two-digit code of the month whose abbreviation the
\* first three characters of the trimmed input spell in any case, whatever
\* follows them, and the date of the Article carries that code; for every
\* other input it fails with 'Not a month', and so does the construction of
\* the Article.
C7_FixDate ==
    pc = "return" =>
        LET t == FirstThree(arg)
        IN  /\ \A m \in 1..12 :
                  SpellsMonth(t, m) =>
                      /\ ret.fix = [ok |-> TRUE, val |-> TwoDigits(m)]
                      /\ ret.article.ok
                      /\ ret.article.datelist[2] = TwoDigits(m)
            /\ (~ \E m \in 1..12 : SpellsMonth(t, m)) =>
                      /\ ret.fix = Raise(NotAMonth)
                      /\ ret.article = Raise(NotAMonth)

\* " DECuary\n" was normalised to "12".
C7_Witness ==
    /\ pc = "return"
    /\ arg = <<" ","D","E","C","u","a","r","y","\n">>
    /\ ret.fix = [ok |-> TRUE, val |-> <<"1","2">>]

(***************************************************************************)
(* Properties of Article construction and of the slug (SpecArticle).       *)
(***************************************************************************)
Constructed == pc \in {"made", "published"}

\* The tags of a record that are absent.
Absent(r) ==
    {g \in Tags :
        \/ g = "ArticleTitle" /\ r.ArticleTitle = None
        \/ g = "Abstract" /\ r.Abstract = NoneTag
        \/ g = "Author" /\ r.Author = <<>>
        \/ g = "Journal" /\ r.Journal = NoneTag
        \/ g = "Title" /\ r.Journal # NoneTag /\ r.Journal.Title = None
        \/ g = "PubDate" /\ r.Journal # NoneTag /\ r.Journal.PubDate = NoneTag
        \/ g \in {"Year", "Month", "Day"} /\ r.Journal # NoneTag
              /\ r.Journal.PubDate # NoneTag /\ r.Journal.PubDate[g] = None
        \/ g = "PublicationType" /\ r.PublicationType = None
        \/ g = "Keyword" /\ r.Keyword = <<>>
        \/ g = "ELocationID" /\ r.ELocationID = None
        \/ g = "PMID" /\ r.PMID = None}

\* The Day text of a record with a PubDate.
DayText(r) == r.Journal.PubDate.Day

\* C6: the abstract is the heading followed by the container's raw text when it
\* has no AbstractText segment or when any segment lacks its Label, and by the
\* segments as "Label: text" joined by one blank line, in order, otherwise.
C6_Abstract ==
    (Constructed /\ arg.Abstract # NoneTag /\ ret.ok) =>
        LET ch == arg.Abstract.children
            segs == {k \in DOMAIN ch : ch[k].tag = "AbstractText"}
            raw == Concat([k \in DOMAIN ch |-> ch[k].text])
            body == SubSeq(ret.abstract, 2, Len(ret.abstract))
        IN  /\ ret.abstract[1] = "# Abstract:\n\n"
            /\ (segs = {} \/ \E k \in segs : ch[k].Label = None) => body = raw
            /\ (segs # {} /\ \A k \in segs : ch[k].Label # None) =>
                  body = join(<<"\n", "\n">>,
                              [k \in 1..Cardinality(segs) |->
                                  LET c == SelectSeq(ch, LAMBDA e : e.tag = "AbstractText")[k]
                                  IN  c.Label \o <<":", " ">> \o c.text])

\* Two labelled segments followed by one without a Label gave the raw text.
C6_Witness ==
    /\ pc = "made" /\ ret.ok /\ arg.Abstract # NoneTag
    /\ Len(arg.Abstract.children) = 3
    /\ \A k \in 1..3 : arg.Abstract.children[k].tag = "AbstractText"
    /\ arg.Abstract.children[1].Label = <<"A","I","M">>
    /\ arg.Abstract.children[2].Label = <<"R","E","S">>
    /\ arg.Abstract.children[3].Label = None
    /\ ret.abstract = <<"# Abstract:\n\n", "a", ".", "r", "e_acute", "n", "o">>

Required == Tags \ {"Day", "Keyword"}

\* C5 as stated: the construction fails whenever any tag other than the day is
\* absent from the record.
C5_AnyAbsentFails ==
    Constructed => ((Absent(arg) \ {"Day"}) # {} => ~ ret.ok)

\* C5 amended: the construction fails whenever the title, the abstract, every
\* author, the journal or its title, the publication date, its year or its
\* month, the publication type, the DOI or the PMID is absent; with none of
\* them absent, absent keywords are rendered as "[]" and an absent day as
\* "00", without failure.
C5_RequiredAbsentFails ==
    Constructed =>
        /\ (Absent(arg) \cap Required # {}) => ~ ret.ok
        /\ (Absent(arg) \cap Required = {} /\ "Day" \in Absent(arg)) =>
              ret.ok /\ ret.datelist[3] = <<"0","0">>
        /\ (Absent(arg) \cap Required = {} /\ "Keyword" \in Absent(arg)
                /\ ("Day" \in Absent(arg) \/ DayText(arg) = <<"7">>)) =>
              ret.ok /\ ret.keywords = <<"[", "]">>

\* A record without a DOI and with every other tag was refused.
C5_Witness ==
    /\ pc = "made"
    /\ Absent(arg) = {"ELocationID"}
    /\ ret = Raise(AttributeError)

\* C4 as stated: with everything but the day in place, the construction
\* succeeds; the day is "00" when the Day tag is absent or its text is no
\* integer, and the zero-padded day when it is one.
C4_DayDefault ==
    (Constructed /\ Absent(arg) \cap Required = {}) =>
        /\ ret.ok
        /\ ("Day" \in Absent(arg) \/ ~ int(DayText(arg)).ok) => ret.datelist[3] = <<"0","0">>
        /\ ("Day" \notin Absent(arg) /\ int(DayText(arg)).ok
                /\ int(DayText(arg)).val \in 0..99) =>
              ret.datelist[3] = TwoDigits(int(DayText(arg)).val)

\* C2 as stated: the slug of a published Article holds no character outside
\* [a-z0-9_].
C2_SlugSafe ==
    pc = "published" =>
        \A p \in fs.dirs : Range(p) \subseteq Range(LowerCase) \cup Range(DigitChars) \cup {"_"}

====
